---- MODULE Spec2Model ----
(***************************************************************************)
(* Model of the SearchEngine class of vehicle-law-search                   *)
(* (src/unnamed/part_001).  Strings are sequences of one-character         *)
(* strings; JavaScript arrays are sequences; a JavaScript Set is a         *)
(* duplicate-free sequence in insertion order.                             *)
(***************************************************************************)
EXTENDS Integers, Sequences, FiniteSets, TLC

VARIABLES
    laws,          \* this.laws: [kind, items]; kind is "undefined" when the field holds undefined
    synonyms,      \* this.synonyms: the entries of the object, in key order
    pdfMetadata,   \* this.pdfMetadata
    pdfContent,    \* this.pdfContent
    isReady,       \* this.isReady
    call,          \* the call being answered: its operation, arguments and result
    lastLoad,      \* history: "none", or how the latest loadData call ended ("ok", "failed")
    everLoaded     \* history: some loadData call has returned true

vars == <<laws, synonyms, pdfMetadata, pdfContent, isReady, call, lastLoad, everLoaded>>

engine == <<laws, synonyms, pdfMetadata, pdfContent, isReady>>

\* ------------------------------------------------------------------ bounds

\* Largest number of pieces (words or phrases) joined into one query.
MaxPieces == 2

\* ------------------------------------------------------- string primitives

Range(s) == {s[i] : i \in 1..Len(s)}

Min(S) == CHOOSE x \in S : \A y \in S : x <= y

Max(S) == CHOOSE x \in S : \A y \in S : x >= y

\* The characters \s matches among those the model uses.
IsWs(c) == c \in {" ", "\t"}

\* The upper-case letters the model's texts use.
UpperUsed == {"A", "B", "I", "L", "O", "R", "S"}

LowerChar(c) ==
    IF c \notin UpperUsed THEN c
    ELSE CASE c = "A" -> "a"
           [] c = "B" -> "b"
           [] c = "I" -> "i"
           [] c = "L" -> "l"
           [] c = "O" -> "o"
           [] c = "R" -> "r"
           [] c = "S" -> "s"

\* String.prototype.toLowerCase
toLowerCase(s) == [i \in 1..Len(s) |-> LowerChar(s[i])]

\* String.prototype.includes: t occurs in s as a contiguous substring.
includes(s, t) ==
    \/ t = <<>>
    \/ \E i \in 1..(Len(s) - Len(t) + 1) :
          s[i] = t[1] /\ SubSeq(s, i, i + Len(t) - 1) = t

\* String.prototype.trim
trim(s) ==
    LET nz == {i \in 1..Len(s) : ~IsWs(s[i])}
    IN  IF nz = {} THEN <<>> ELSE SubSeq(s, Min(nz), Max(nz))

\* Last index of the run of whitespace that starts at p (s[p] is whitespace).
WsRunEnd(s, p) ==
    Min({j \in p..Len(s) : j = Len(s) \/ ~IsWs(s[j + 1])})

\* String.prototype.split(/\s+/)
RECURSIVE splitWhitespace(_)
splitWhitespace(s) ==
    LET ws == {i \in 1..Len(s) : IsWs(s[i])}
    IN  IF ws = {} THEN <<s>>
        ELSE LET p == Min(ws)
                 e == WsRunEnd(s, p)
             IN  <<SubSeq(s, 1, p - 1)>>
                     \o splitWhitespace(SubSeq(s, e + 1, Len(s)))

\* Index of the last character of the match of /\s+OR\s+/i that starts at p,
\* or 0 when the pattern does not match there.
OrMatchEnd(s, p) ==
    IF ~IsWs(s[p]) THEN 0
    ELSE LET e == WsRunEnd(s, p)
         IN  IF /\ e + 3 <= Len(s)
                /\ LowerChar(s[e + 1]) = "o"
                /\ LowerChar(s[e + 2]) = "r"
                /\ IsWs(s[e + 3])
             THEN WsRunEnd(s, e + 3)
             ELSE 0

\* String.prototype.split(/\s+OR\s+/i)
RECURSIVE splitOR(_)
splitOR(s) ==
    LET starts == {p \in 1..Len(s) : OrMatchEnd(s, p) > 0}
    IN  IF starts = {} THEN <<s>>
        ELSE LET p == Min(starts)
                 e == OrMatchEnd(s, p)
             IN  <<SubSeq(s, 1, p - 1)>> \o splitOR(SubSeq(s, e + 1, Len(s)))

\* Array.prototype.join(' ')
RECURSIVE joinSpace(_)
joinSpace(ss) ==
    IF ss = <<>> THEN <<>>
    ELSE IF Len(ss) = 1 THEN ss[1]
    ELSE ss[1] \o <<" ">> \o joinSpace(Tail(ss))

\* Mutant of SetAdd: a plain array push, which keeps duplicates.
SetAdd_Push(seq, x) == Append(seq, x)

\* Set.prototype.add on an insertion-ordered set.
SetAdd(seq, x) == IF x \in Range(seq) THEN seq ELSE Append(seq, x)

RECURSIVE SetAddAll(_, _)
SetAddAll(seq, xs) ==
    IF xs = <<>> THEN seq ELSE SetAddAll(SetAdd(seq, Head(xs)), Tail(xs))

\* ------------------------------------------------------------- input pools

\* Words of the documents, the dictionaries and the queries.
W_br == <<"b", "r">>

W_Br == <<"B", "r">>

W_bs == <<"b", " ", "s">>

W_BS == <<"B", " ", "S">>

W_la == <<"l", "a">>

W_La == <<"L", "a">>

W_li == <<"l", "i">>

W_LI == <<"L", "I">>

W_lt == <<"l", "t">>

W_x == <<"x">>

W_La_li == <<"L", "a", " ", "l", "i">>

\* The lawType values '法律' (statute) and '省令' (ordinance) of the laws document.
LawTypeLaw == "houritsu"

LawTypeOrdinance == "shourei"

\* laws.json documents: hasLaws is FALSE for a document without a "laws" key.
LawsDocA ==
    [hasLaws |-> TRUE,
     laws |-> <<
        [lawId |-> "L1", lawType |-> LawTypeLaw, articles |-> <<
            [articleNumber |-> <<"1">>, title |-> W_La, content |-> W_la \o <<" ">> \o W_LI],
            [articleNumber |-> <<"2">>, title |-> W_br, content |-> W_la] >>],
        [lawId |-> "L2", lawType |-> LawTypeOrdinance, articles |-> <<
            [articleNumber |-> <<"1">>, title |-> W_x, content |-> W_BS],
            [articleNumber |-> <<"l", "t">>, title |-> W_lt, content |-> W_la \o W_la] >>],
        [lawId |-> "L3", lawType |-> LawTypeOrdinance, articles |-> <<
            [articleNumber |-> <<>>, title |-> <<>>, content |-> W_li \o <<" ">> \o W_Br] >>] >>]

LawsDocNoKey == [hasLaws |-> FALSE, laws |-> <<>>]

LawsDocs == {LawsDocA, LawsDocNoKey}

\* synonyms.json documents: the entries of the object in key order.
SynonymsDocA ==
    << [key |-> W_Br, synonyms |-> <<W_bs>>],
       [key |-> W_li, synonyms |-> <<W_lt, W_LI>>] >>

SynonymsDocB == << [key |-> W_la, synonyms |-> <<W_li>>] >>

SynonymsDocs == {SynonymsDocA, SynonymsDocB}

\* pdf_metadata.json documents.
PdfMetadataDocA ==
    [details |-> <<>>,
     appendices |-> << [id |-> <<"B", "1", "2">>, url |-> <<"u">>] >>]

PdfMetadataDocs == {PdfMetadataDocA}

\* pdf_content.json documents: present names the top-level keys the document
\* has; hasKeywords is FALSE for a record without a "keywords" key.
PdfContentDocA ==
    [present |-> {"standards", "appendices", "other"},
     standards |-> <<
        [id |-> <<"H", "1">>, title |-> W_la, content |-> W_x,
         hasKeywords |-> TRUE, keywords |-> <<W_LI, W_x>>] >>,
     details |-> <<>>,
     appendices |-> <<
        [id |-> <<"B", "1", "2">>, title |-> W_BS, content |-> W_li \o W_la,
         hasKeywords |-> FALSE, keywords |-> <<>>] >>,
     other |-> <<>>]

\* n filler characters that occur in no term.
Pad(n) == [i \in 1..n |-> "_"]

\* A content of 502 characters: "Br" at index 0, "b s" at index 60 and "li"
\* at index 500.
LongContent == W_Br \o Pad(58) \o W_bs \o Pad(437) \o W_li

PdfContentDocB ==
    [present |-> {"details", "other"},
     standards |-> <<>>,
     details |-> <<
        [id |-> <<"S", "0", "7">>, title |-> W_x, content |-> LongContent,
         hasKeywords |-> FALSE, keywords |-> <<>>],
        [id |-> <<"S", "3", "-", "1">>, title |-> <<>>, content |-> W_Br \o <<" ">> \o W_la,
         hasKeywords |-> TRUE, keywords |-> <<>>] >>,
     appendices |-> <<>>,
     other |-> <<
        [id |-> <<"Z", "9">>, title |-> W_li, content |-> <<>>,
         hasKeywords |-> FALSE, keywords |-> <<>>] >>]

PdfContentDocs == {PdfContentDocA, PdfContentDocB}

DocNames == {"laws", "synonyms", "pdfMetadata", "pdfContent"}

\* The order in which loadData parses and assigns the four documents.
DocOrder == [d \in DocNames |->
                CASE d = "laws" -> 1
                  [] d = "synonyms" -> 2
                  [] d = "pdfMetadata" -> 3
                  [] d = "pdfContent" -> 4]

\* What goes wrong first in a loadData call: nothing, the fetch of a document
\* (Promise.all rejects before anything is assigned), or the parse of one.
LoadOutcomes ==
    {[stage |-> "none", doc |-> "laws"]}
        \cup [stage : {"fetch", "parse"}, doc : DocNames]

\* The separators that join the pieces of a query: AND, and OR in mixed case
\* between other whitespace.
Seps == { <<" ">>, <<"\t", "o", "R", " ", " ">> }

Pieces == {W_br, W_La_li}

RECURSIVE QueriesOf(_)
QueriesOf(n) ==
    IF n = 1 THEN Pieces
    ELSE {q \o s \o p : q \in QueriesOf(n - 1), s \in Seps, p \in Pieces}

\* The empty and the blank query, a query to be trimmed, one that starts with
\* the separator, the plain "br OR li" and "li OR br", the single word "li",
\* and the joined pieces.
Queries ==
    { <<>>, <<" ">>, <<" ", "l", "i", "\t">>, <<" ", "O", "R", " ", "l", "i">>,
      W_br \o <<" ", "O", "R", " ">> \o W_li,
      W_li \o <<" ", "O", "R", " ">> \o W_br, W_li }
        \cup UNION {QueriesOf(n) : n \in 1..MaxPieces}

\* The arguments of direct calls of expandSynonyms.
Terms ==
    { <<>>, W_br, W_Br, <<"b">>, W_bs, <<"l", "t", "s">>, W_li, W_LI, W_la,
      W_La_li, <<"l">> }

\* The filters argument of search: the two article switches with details and
\* appendices true, as performSearch passes them, and the other values of
\* details and appendices with both article switches on.
Filters ==
    [law : BOOLEAN, ordinance : BOOLEAN, details : {TRUE}, appendices : {TRUE}]
        \cup [law : {TRUE}, ordinance : {TRUE}, details : BOOLEAN, appendices : BOOLEAN]

\* The arguments of direct calls of highlightText.
HighlightTexts == { <<>>, W_La_li, W_la \o W_la, W_LI \o <<" ">> \o W_br }

HighlightTermLists ==
    { <<>>, <<W_li>>, <<W_la, W_La_li>>, <<W_li, <<"l">>>>, <<W_li, W_la>>,
      <<W_br, <<"s", "s">>>> }

\* The arguments of direct calls of formatPDFDisplayName.
PdfIdPool ==
    { <<"B", "1", "2">>, <<"Z", "9">>, <<"S", "3", "-", "1">>, <<"H", "1">>,
      <<"S", "0", "7">>, <<"B", "1", "0", "-", "0", "2">>, <<"b", "1", "2">>,
      <<"B">>, <<"1", "2">>, <<"B", "1", "2", "-">>, <<"B", "1", "-", "2", "-", "3">>,
      <<"B", "B", "1">>, <<"B", "1", "2", "x">>, <<" ", "B", "1">>, <<>> }

\* ----------------------------------------------------------- the engine

\* One iteration of the loop over Object.entries(this.synonyms).
ExpandEntry(terms, queryLower, entry) ==
    LET keyLower == toLowerCase(entry.key)
        synonymsLower ==
            [i \in 1..Len(entry.synonyms) |-> toLowerCase(entry.synonyms[i])]
        t1 == IF includes(queryLower, keyLower)
              THEN SetAddAll(SetAdd(terms, keyLower), synonymsLower)
              ELSE terms
    IN  IF \E i \in 1..Len(synonymsLower) : includes(queryLower, synonymsLower[i])
        THEN SetAddAll(SetAdd(t1, keyLower), synonymsLower)
        ELSE t1

RECURSIVE ExpandEntries(_, _, _)
ExpandEntries(terms, queryLower, entries) ==
    IF entries = <<>> THEN terms
    ELSE ExpandEntries(ExpandEntry(terms, queryLower, Head(entries)),
                       queryLower, Tail(entries))

expandSynonyms(query) ==
    ExpandEntries(<<toLowerCase(query)>>, toLowerCase(query), synonyms)

\* Array.prototype.flatMap(term => this.expandSynonyms(term))
RECURSIVE flatMapExpand(_)
flatMapExpand(ts) ==
    IF ts = <<>> THEN <<>>
    ELSE expandSynonyms(Head(ts)) \o flatMapExpand(Tail(ts))

\* Mutant of parseSearchQuery: an OR group is split on whitespace and each of
\* its words expanded, as the AND branch does.
parseSearchQuery_SplitGroups(query) ==
    LET orGroups == splitOR(query)
    IN  IF Len(orGroups) > 1
        THEN [mode |-> "OR",
              groups |-> [i \in 1..Len(orGroups) |->
                            SetAddAll(<<>>, flatMapExpand(splitWhitespace(trim(orGroups[i]))))],
              terms |-> <<>>,
              originalTerms |-> [i \in 1..Len(orGroups) |-> trim(orGroups[i])]]
        ELSE LET andTerms == splitWhitespace(trim(query))
             IN  [mode |-> "AND",
                  groups |-> <<>>,
                  terms |-> SetAddAll(<<>>, flatMapExpand(andTerms)),
                  originalTerms |-> andTerms]

parseSearchQuery(query) ==
    LET orGroups == splitOR(query)
    IN  IF Len(orGroups) > 1
        THEN [mode |-> "OR",
              groups |-> [i \in 1..Len(orGroups) |-> expandSynonyms(trim(orGroups[i]))],
              terms |-> <<>>,
              originalTerms |-> [i \in 1..Len(orGroups) |-> trim(orGroups[i])]]
        ELSE LET andTerms == splitWhitespace(trim(query))
             IN  [mode |-> "AND",
                  groups |-> <<>>,
                  terms |-> SetAddAll(<<>>, flatMapExpand(andTerms)),
                  originalTerms |-> andTerms]

\* ---------------------------------------------------------------- scoring

\* Score weights of calculateScore (articles) and of searchPDFs (PDF records).
ExactMatchBonus == 150

OccurrenceWeight == 15

TitleBonus == 80

ArticleNumberBonus == 60

PdfOccurrenceWeight == 10

PdfTitleBonus == 50

PdfKeywordBonus == 30

\* Lengths used for the highlighted article content and the PDF preview.
ArticlePreviewLength == 300

PdfPreviewLength == 200

PdfPreviewSearchLimit == 500

PdfPreviewBefore == 50

PdfPreviewAfter == 150

Ellipsis == <<".", ".", ".">>

\* (text.match(new RegExp(escapeRegex(term), 'gi')) || []).length for lowercased
\* text and term: the non-overlapping occurrences, found left to right; the
\* empty pattern matches once at every position.
RECURSIVE countMatches(_, _)
countMatches(text, term) ==
    IF term = <<>> THEN Len(text) + 1
    ELSE LET starts == {i \in 1..(Len(text) - Len(term) + 1) :
                            /\ text[i] = term[1]
                            /\ SubSeq(text, i, i + Len(term) - 1) = term}
         IN  IF starts = {} THEN 0
             ELSE 1 + countMatches(SubSeq(text, Min(starts) + Len(term), Len(text)), term)

\* String.prototype.indexOf, 0-based, -1 when absent.
indexOf(s, t) ==
    LET starts == {i \in 0..(Len(s) - Len(t)) :
                      t = <<>> \/ (s[i + 1] = t[1] /\ SubSeq(s, i + 1, i + Len(t)) = t)}
    IN  IF starts = {} THEN -1 ELSE Min(starts)

\* String.prototype.substring(start, end) with 0 <= start <= end <= length.
substring(s, start, end) == SubSeq(s, start + 1, end)

\* The body of the loop over terms in calculateScore.
TermScore(article, content, term) ==
    LET termLower == toLowerCase(term)
    IN  countMatches(content, termLower) * OccurrenceWeight
          + (IF includes(toLowerCase(article.title), termLower) THEN TitleBonus ELSE 0)
          + (IF /\ article.articleNumber # <<>>
                /\ includes(toLowerCase(article.articleNumber), termLower)
             THEN ArticleNumberBonus ELSE 0)

RECURSIVE SumTermScores(_, _, _)
SumTermScores(article, content, terms) ==
    IF terms = <<>> THEN 0
    ELSE TermScore(article, content, Head(terms))
            + SumTermScores(article, content, Tail(terms))

\* Mutant of calculateScore: the exact-match bonus is tested with the trimmed
\* query instead of the query as typed.
calculateScore_TrimmedQuery(article, query, terms) ==
    LET content == toLowerCase(article.title \o <<" ">> \o article.content)
    IN  (IF includes(content, toLowerCase(trim(query))) THEN ExactMatchBonus ELSE 0)
          + SumTermScores(article, content, terms)

calculateScore(article, query, terms) ==
    LET content == toLowerCase(article.title \o <<" ">> \o article.content)
    IN  (IF includes(content, toLowerCase(query)) THEN ExactMatchBonus ELSE 0)
          + SumTermScores(article, content, terms)

\* The body of the scoring loop of searchPDFs.
PdfTermScore(pdf, searchText, term) ==
    LET termLower == toLowerCase(term)
    IN  IF ~includes(searchText, termLower) THEN 0
        ELSE countMatches(searchText, termLower) * PdfOccurrenceWeight
               + (IF includes(toLowerCase(pdf.title), termLower) THEN PdfTitleBonus ELSE 0)
               + (IF /\ pdf.hasKeywords
                     /\ \E k \in 1..Len(pdf.keywords) :
                            includes(toLowerCase(pdf.keywords[k]), termLower)
                  THEN PdfKeywordBonus ELSE 0)

RECURSIVE pdfScore(_, _, _)
pdfScore(pdf, searchText, terms) ==
    IF terms = <<>> THEN 0
    ELSE PdfTermScore(pdf, searchText, Head(terms))
            + pdfScore(pdf, searchText, Tail(terms))

\* Mutant of pdfPreview: an occurrence at any index moves the window, the
\* test against the search limit being left out.
pdfPreview_NoLimit(content, matchedTerms) ==
    LET lower == toLowerCase(content)
        at(i) == indexOf(lower, toLowerCase(matchedTerms[i]))
        hits == {i \in 1..Len(matchedTerms) : at(i) # -1}
    IN  IF hits = {}
        THEN substring(content, 0, Min({PdfPreviewLength, Len(content)}))
        ELSE LET index == at(Min(hits))
                 start == Max({0, index - PdfPreviewBefore})
                 end == Min({Len(content), index + PdfPreviewAfter})
             IN  Ellipsis \o substring(content, start, end) \o Ellipsis

\* The preview of a PDF record (the loop over matchedTerms with its break).
pdfPreview(content, matchedTerms) ==
    LET lower == toLowerCase(content)
        at(i) == indexOf(lower, toLowerCase(matchedTerms[i]))
        hits == {i \in 1..Len(matchedTerms) :
                    at(i) # -1 /\ at(i) < PdfPreviewSearchLimit}
    IN  IF hits = {}
        THEN substring(content, 0, Min({PdfPreviewLength, Len(content)}))
        ELSE LET index == at(Min(hits))
                 start == Max({0, index - PdfPreviewBefore})
                 end == Min({Len(content), index + PdfPreviewAfter})
             IN  Ellipsis \o substring(content, start, end) \o Ellipsis

\* --------------------------------------------------------------- matching

\* terms.sort((a, b) => b.length - a.length): stable, longest first.
RECURSIVE sortByLength(_)
sortByLength(terms) ==
    IF terms = <<>> THEN <<>>
    ELSE LET sorted == sortByLength(SubSeq(terms, 1, Len(terms) - 1))
             x == terms[Len(terms)]
             k == Cardinality({i \in 1..Len(sorted) : Len(sorted[i]) >= Len(x)})
         IN  SubSeq(sorted, 1, k) \o <<x>> \o SubSeq(sorted, k + 1, Len(sorted))

\* The order highlightText(text, terms) leaves its argument terms in: the
\* array is sorted in place unless the early return is taken.
termsAfterHighlight(text, terms) ==
    IF text = <<>> \/ terms = <<>> THEN terms ELSE sortByLength(terms)

\* The markup highlightText wraps a match in: <span class="highlight"> and </span>.
HighlightOpen ==
    << "<", "s", "p", "a", "n", " ", "c", "l", "a", "s", "s", "=", "\"",
       "h", "i", "g", "h", "l", "i", "g", "h", "t", "\"", ">" >>

HighlightClose == << "<", "/", "s", "p", "a", "n", ">" >>

\* Terms shorter than this are skipped by highlightText.
MinHighlightLength == 2

\* result.replace(new RegExp(`(${escapeRegex(term)})`, 'gi'), markup around $1):
\* every non-overlapping case-insensitive occurrence of the (literal) term,
\* found left to right, is wrapped; the matched characters keep their case.
RECURSIVE wrapMatches(_, _)
wrapMatches(text, term) ==
    LET lower == toLowerCase(text)
        t == toLowerCase(term)
        starts == {i \in 1..(Len(text) - Len(t) + 1) :
                      lower[i] = t[1] /\ SubSeq(lower, i, i + Len(t) - 1) = t}
    IN  IF starts = {} THEN text
        ELSE LET p == Min(starts)
             IN  SubSeq(text, 1, p - 1) \o HighlightOpen
                    \o SubSeq(text, p, p + Len(t) - 1) \o HighlightClose
                    \o wrapMatches(SubSeq(text, p + Len(t), Len(text)), term)

\* The loop over sortedTerms of highlightText: each replacement runs on the
\* result of the earlier ones, markup included.
RECURSIVE highlightTerms(_, _)
highlightTerms(result, sortedTerms) ==
    IF sortedTerms = <<>> THEN result
    ELSE highlightTerms(
            IF Len(Head(sortedTerms)) < MinHighlightLength THEN result
            ELSE wrapMatches(result, Head(sortedTerms)),
            Tail(sortedTerms))

highlightText(text, terms) ==
    IF text = <<>> \/ terms = <<>> THEN text
    ELSE highlightTerms(text, sortByLength(terms))

\* Mutant of sortByScore: the list is left in scan order.
sortByScore_ScanOrder(results) == results

\* results.sort((a, b) => b.score - a.score): stable, highest first.
RECURSIVE sortByScore(_)
sortByScore(results) ==
    IF results = <<>> THEN <<>>
    ELSE LET sorted == sortByScore(SubSeq(results, 1, Len(results) - 1))
             x == results[Len(results)]
             k == Cardinality({i \in 1..Len(sorted) : sorted[i].score >= x.score})
         IN  SubSeq(sorted, 1, k) \o <<x>> \o SubSeq(sorted, k + 1, Len(sorted))

\* Mutant of MatchRecord: the AND branch accepts a record that holds any term
\* of the unioned expansion, not one term per original token.
MatchRecord_AnyTerm(text, parsedQuery) ==
    IF parsedQuery.mode = "OR"
    THEN LET groups == parsedQuery.groups
             ok == {g \in 1..Len(groups) :
                       \E i \in 1..Len(groups[g]) :
                           includes(text, toLowerCase(groups[g][i]))}
         IN  IF ok = {} THEN [matches |-> FALSE, matchedTerms |-> <<>>]
             ELSE [matches |-> TRUE, matchedTerms |-> groups[Min(ok)]]
    ELSE LET some == \E j \in 1..Len(parsedQuery.terms) :
                         includes(text, toLowerCase(parsedQuery.terms[j]))
         IN  [matches |-> some,
              matchedTerms |-> IF some THEN parsedQuery.terms ELSE <<>>]

\* Mutant of MatchRecord: an OR group is satisfied only when every one of its
\* terms occurs in the text.
MatchRecord_EveryTerm(text, parsedQuery) ==
    IF parsedQuery.mode = "OR"
    THEN LET groups == parsedQuery.groups
             ok == {g \in 1..Len(groups) :
                       \A i \in 1..Len(groups[g]) :
                           includes(text, toLowerCase(groups[g][i]))}
         IN  IF ok = {} THEN [matches |-> FALSE, matchedTerms |-> <<>>]
             ELSE [matches |-> TRUE, matchedTerms |-> groups[Min(ok)]]
    ELSE LET originalTerms == parsedQuery.originalTerms
             every == \A i \in 1..Len(originalTerms) :
                         LET syns == expandSynonyms(originalTerms[i])
                         IN  \E j \in 1..Len(syns) : includes(text, toLowerCase(syns[j]))
         IN  [matches |-> every,
              matchedTerms |-> IF every THEN parsedQuery.terms ELSE <<>>]

\* Mutant of MatchRecord: every record is accepted, with the terms of the
\* query (AND) or of its first group (OR).
MatchRecord_Always(text, parsedQuery) ==
    [matches |-> TRUE,
     matchedTerms |-> IF parsedQuery.mode = "OR" THEN parsedQuery.groups[1]
                      ELSE parsedQuery.terms]

\* Concatenation of the groups whose indices are in ok, in query order.
RECURSIVE ConcatGroups(_, _, _)
ConcatGroups(groups, ok, g) ==
    IF g > Len(groups) THEN <<>>
    ELSE (IF g \in ok THEN groups[g] ELSE <<>>) \o ConcatGroups(groups, ok, g + 1)

\* Mutant of MatchRecord: the loop over the OR groups has no break, so the
\* terms of every satisfied group are collected.
MatchRecord_NoBreak(text, parsedQuery) ==
    IF parsedQuery.mode = "OR"
    THEN LET groups == parsedQuery.groups
             ok == {g \in 1..Len(groups) :
                       \E i \in 1..Len(groups[g]) :
                           includes(text, toLowerCase(groups[g][i]))}
         IN  IF ok = {} THEN [matches |-> FALSE, matchedTerms |-> <<>>]
             ELSE [matches |-> TRUE, matchedTerms |-> ConcatGroups(groups, ok, 1)]
    ELSE LET originalTerms == parsedQuery.originalTerms
             every == \A i \in 1..Len(originalTerms) :
                         LET syns == expandSynonyms(originalTerms[i])
                         IN  \E j \in 1..Len(syns) : includes(text, toLowerCase(syns[j]))
         IN  [matches |-> every,
              matchedTerms |-> IF every THEN parsedQuery.terms ELSE <<>>]

\* The match test of one record against the parsed query, and the terms the
\* record is scored and highlighted with; text is the lowercased search text.
MatchRecord(text, parsedQuery) ==
    IF parsedQuery.mode = "OR"
    THEN LET groups == parsedQuery.groups
             ok == {g \in 1..Len(groups) :
                       \E i \in 1..Len(groups[g]) :
                           includes(text, toLowerCase(groups[g][i]))}
         IN  IF ok = {} THEN [matches |-> FALSE, matchedTerms |-> <<>>]
             ELSE [matches |-> TRUE, matchedTerms |-> groups[Min(ok)]]
    ELSE LET originalTerms == parsedQuery.originalTerms
             every == \A i \in 1..Len(originalTerms) :
                         LET syns == expandSynonyms(originalTerms[i])
                         IN  \E j \in 1..Len(syns) : includes(text, toLowerCase(syns[j]))
         IN  [matches |-> every,
              matchedTerms |-> IF every THEN parsedQuery.terms ELSE <<>>]

\* In AND mode matchedTerms is the array parsedQuery.terms itself, so the two
\* highlightText calls made for a result reorder parsedQuery.terms; in OR mode
\* matchedTerms is a copy.
AfterHighlights(parsedQuery, text1, text2) ==
    IF parsedQuery.mode = "OR" THEN parsedQuery
    ELSE [parsedQuery EXCEPT
            !.terms = termsAfterHighlight(text2, termsAfterHighlight(text1, @))]

\* Mutant of LawSkipped: both categories are tested against filters.law.
LawSkipped_OneSwitch(law, filters) ==
    \/ law.lawType = LawTypeLaw /\ ~filters.law
    \/ law.lawType = LawTypeOrdinance /\ ~filters.law

\* The filter at the head of the loop over this.laws.
LawSkipped(law, filters) ==
    \/ law.lawType = LawTypeLaw /\ ~filters.law
    \/ law.lawType = LawTypeOrdinance /\ ~filters.ordinance

\* The (law, article) pairs the nested loops of search visit, in order.
RECURSIVE ScanItems(_, _)
ScanItems(lawSeq, filters) ==
    IF lawSeq = <<>> THEN <<>>
    ELSE LET law == Head(lawSeq)
         IN  (IF LawSkipped(law, filters) THEN <<>>
              ELSE [i \in 1..Len(law.articles) |->
                        [law |-> law, article |-> law.articles[i]]])
                 \o ScanItems(Tail(lawSeq), filters)

ArticlePreview(content) ==
    substring(content, 0, Min({ArticlePreviewLength, Len(content)}))
        \o (IF Len(content) > ArticlePreviewLength THEN Ellipsis ELSE <<>>)

\* The loops over laws and articles: the results pushed, and parsedQuery as
\* the highlightText calls leave it.
RECURSIVE scanArticles(_, _, _, _)
scanArticles(items, query, parsedQuery, results) ==
    IF items = <<>> THEN [parsedQuery |-> parsedQuery, results |-> results]
    ELSE LET law == Head(items).law
             article == Head(items).article
             content == toLowerCase(article.title \o <<" ">> \o article.content)
             m == MatchRecord(content, parsedQuery)
         IN  IF ~m.matches
             THEN scanArticles(Tail(items), query, parsedQuery, results)
             ELSE scanArticles(
                    Tail(items), query,
                    AfterHighlights(parsedQuery, article.title,
                                    ArticlePreview(article.content)),
                    Append(results,
                           [lawId |-> law.lawId,
                            lawType |-> law.lawType,
                            articleNumber |-> article.articleNumber,
                            title |-> article.title,
                            content |-> article.content,
                            score |-> calculateScore(article, query, m.matchedTerms),
                            highlightedTitle |->
                                highlightText(article.title, m.matchedTerms),
                            highlightedContent |->
                                highlightText(ArticlePreview(article.content),
                                              m.matchedTerms),
                            matchedTerms |-> m.matchedTerms]))

\* The characters [A-Z] and \d match.
UpperLetters ==
    { "A", "B", "C", "D", "E", "F", "G", "H", "I", "J", "K", "L", "M",
      "N", "O", "P", "Q", "R", "S", "T", "U", "V", "W", "X", "Y", "Z" }

Digits == <<"0", "1", "2", "3", "4", "5", "6", "7", "8", "9">>

IsDigit(c) == \E d \in 1..Len(Digits) : Digits[d] = c

\* pdfId.match(/^([A-Z])(\d+)(-\d+)?$/): the number of digits of group 2, or
\* 0 when the pattern does not match.
MatchPdfId(pdfId) ==
    LET n == Len(pdfId)
        ok == {k \in 1..(n - 1) :
                  /\ \A i \in 2..(k + 1) : IsDigit(pdfId[i])
                  /\ \/ k + 1 = n
                     \/ /\ k + 3 <= n
                        /\ pdfId[k + 2] = "-"
                        /\ \A i \in (k + 3)..n : IsDigit(pdfId[i])}
    IN  IF n >= 2 /\ pdfId[1] \in UpperLetters /\ ok # {} THEN Max(ok) ELSE 0

\* parseInt(digits, 10)
RECURSIVE parseInt(_)
parseInt(digits) ==
    IF digits = <<>> THEN 0
    ELSE 10 * parseInt(SubSeq(digits, 1, Len(digits) - 1))
            + (CHOOSE d \in 1..Len(Digits) : Digits[d] = digits[Len(digits)]) - 1

\* The decimal text of a number in a template literal.
RECURSIVE numberToString(_)
numberToString(n) ==
    IF n < 10 THEN <<Digits[n + 1]>>
    ELSE numberToString(n \div 10) \o <<Digits[(n % 10) + 1]>>

\* The label texts of formatPDFDisplayName, each an opaque character: the
\* text before the number and the text after it.
LabelDetail == [before |-> <<"[saimoku-kokuji dai]">>, after |-> <<"[jou]">>]

LabelAppendix == [before |-> <<"[betten]">>, after |-> <<>>]

LabelStandard == [before |-> <<"[hoan-kijun dai]">>, after |-> <<"[jou]">>]

\* Mutant of formatPDFDisplayName: an unknown prefix letter gets the appendix
\* label instead of falling to the default case.
formatPDFDisplayName_NoDefault(pdfId) ==
    LET k == MatchPdfId(pdfId)
    IN  IF k = 0 THEN pdfId
        ELSE LET prefix == pdfId[1]
                 number == parseInt(SubSeq(pdfId, 2, k + 1))
                 suffix == SubSeq(pdfId, k + 2, Len(pdfId))
                 label == CASE prefix = "S" -> LabelDetail
                            [] prefix = "H" -> LabelStandard
                            [] OTHER -> LabelAppendix
             IN  label.before \o numberToString(number) \o label.after \o suffix

formatPDFDisplayName(pdfId) ==
    LET k == MatchPdfId(pdfId)
    IN  IF k = 0 THEN pdfId
        ELSE LET prefix == pdfId[1]
                 number == parseInt(SubSeq(pdfId, 2, k + 1))
                 suffix == SubSeq(pdfId, k + 2, Len(pdfId))
                 label(l) == l.before \o numberToString(number) \o l.after \o suffix
             IN  CASE prefix = "S" -> label(LabelDetail)
                   [] prefix = "B" -> label(LabelAppendix)
                   [] prefix = "H" -> label(LabelStandard)
                   [] OTHER -> pdfId

\* The PDF records searchPDFs visits, category by category.
PdfItems ==
    LET tag(type, data) == [i \in 1..Len(data) |-> [type |-> type, pdf |-> data[i]]]
    IN  tag("standard", pdfContent.standards) \o tag("detail", pdfContent.details)
            \o tag("appendix", pdfContent.appendices) \o tag("other", pdfContent.other)

PdfSearchText(pdf) ==
    toLowerCase(pdf.title \o <<" ">> \o pdf.content \o <<" ">>
                    \o joinSpace(IF pdf.hasKeywords THEN pdf.keywords ELSE <<>>))

RECURSIVE scanPDFs(_, _, _)
scanPDFs(items, parsedQuery, results) ==
    IF items = <<>> THEN results
    ELSE LET pdf == Head(items).pdf
             searchText == PdfSearchText(pdf)
             m == MatchRecord(searchText, parsedQuery)
             preview == pdfPreview(pdf.content, m.matchedTerms)
         IN  IF ~m.matches
             THEN scanPDFs(Tail(items), parsedQuery, results)
             ELSE scanPDFs(
                    Tail(items),
                    AfterHighlights(parsedQuery, pdf.title, preview),
                    Append(results,
                           [type |-> Head(items).type,
                            id |-> pdf.id,
                            displayName |-> formatPDFDisplayName(pdf.id),
                            title |-> pdf.title,
                            content |-> preview,
                            fullContent |-> pdf.content,
                            score |-> pdfScore(pdf, searchText, m.matchedTerms),
                            highlightedTitle |-> highlightText(pdf.title, m.matchedTerms),
                            highlightedContent |-> highlightText(preview, m.matchedTerms),
                            matchedTerms |-> m.matchedTerms]))

searchPDFs(query, parsedQuery) == sortByScore(scanPDFs(PdfItems, parsedQuery, <<>>))

\* search(query, filters): threw is TRUE when the call ends in a TypeError
\* (this.laws is undefined and cannot be iterated).
search(query, filters) ==
    IF ~isReady \/ query = <<>> \/ Len(trim(query)) = 0
    THEN [threw |-> FALSE, articles |-> <<>>, pdfs |-> <<>>]
    ELSE LET parsedQuery == parseSearchQuery(trim(query))
         IN  IF laws.kind # "array"
             THEN [threw |-> TRUE, articles |-> <<>>, pdfs |-> <<>>]
             ELSE LET scanned == scanArticles(ScanItems(laws.items, filters),
                                              query, parsedQuery, <<>>)
                  IN  [threw |-> FALSE,
                       articles |-> sortByScore(scanned.results),
                       pdfs |-> searchPDFs(query, scanned.parsedQuery)]

\* getStats(): null before the data is loaded, else the counts.
RECURSIVE CountArticles(_)
CountArticles(lawSeq) ==
    IF lawSeq = <<>> THEN 0
    ELSE Len(Head(lawSeq).articles) + CountArticles(Tail(lawSeq))

getStats ==
    IF ~isReady THEN [threw |-> FALSE, isNull |-> TRUE]
    ELSE IF laws.kind # "array" THEN [threw |-> TRUE, isNull |-> FALSE]
    ELSE [threw |-> FALSE, isNull |-> FALSE,
          lawCount |-> Len(laws.items),
          articleCount |-> CountArticles(laws.items),
          synonymCount |-> Len(synonyms),
          standardsCount |-> Len(pdfContent.standards),
          detailsCount |-> Len(pdfContent.details),
          appendicesCount |-> Len(pdfContent.appendices),
          otherCount |-> Len(pdfContent.other)]

\* ---------------------------------------------------------------- actions

\* No call is in progress: the engine is called from one thread, one call at
\* a time, and each call runs to completion.
Idle == [op |-> "none"]

Init ==
    /\ laws = [kind |-> "array", items |-> <<>>]
    /\ synonyms = <<>>
    /\ pdfMetadata = [details |-> <<>>, appendices |-> <<>>]
    /\ pdfContent = [standards |-> <<>>, details |-> <<>>,
                     appendices |-> <<>>, other |-> <<>>]
    /\ isReady = FALSE
    /\ call = Idle
    /\ lastLoad = "none"
    /\ everLoaded = FALSE

\* loadData(): the four fetches resolve or reject, then the four bodies are
\* parsed and assigned one after the other; any exception ends in the catch.
\* The call is one step: init() awaits it before it wires the event handlers
\* that call search, so no other method runs between its assignments.
LoadData ==
    /\ call = Idle
    /\ \E failure \in LoadOutcomes,
       lawsDoc \in LawsDocs, synonymsDoc \in SynonymsDocs,
       pdfMetadataDoc \in PdfMetadataDocs, pdfData \in PdfContentDocs :
        LET parsed(d) == failure.stage = "none"
                            \/ (failure.stage = "parse" /\ DocOrder[d] < DocOrder[failure.doc])
            newLaws == IF ~parsed("laws") THEN laws
                       ELSE IF lawsDoc.hasLaws
                            THEN [kind |-> "array", items |-> lawsDoc.laws]
                            ELSE [kind |-> "undefined", items |-> <<>>]
            orEmpty(k, v) == IF k \in pdfData.present THEN v ELSE <<>>
            \* line 43 reads this.laws.length, which throws on undefined
            ret == parsed("pdfContent") /\ newLaws.kind = "array"
        IN  /\ laws' = newLaws
            /\ synonyms' = IF parsed("synonyms") THEN synonymsDoc ELSE synonyms
            /\ pdfMetadata' = IF parsed("pdfMetadata") THEN pdfMetadataDoc ELSE pdfMetadata
            /\ pdfContent' =
                  IF parsed("pdfContent")
                  THEN [standards |-> orEmpty("standards", pdfData.standards),
                        details |-> orEmpty("details", pdfData.details),
                        appendices |-> orEmpty("appendices", pdfData.appendices),
                        other |-> orEmpty("other", pdfData.other)]
                  ELSE pdfContent
            /\ isReady' = IF parsed("pdfContent") THEN TRUE ELSE isReady
            /\ call' = [op |-> "loadData", failure |-> failure, ret |-> ret]
            /\ lastLoad' = IF ret THEN "ok" ELSE "failed"
            /\ everLoaded' = (everLoaded \/ ret)

\* A direct call of expandSynonyms(query).
ExpandSynonyms ==
    \E query \in Terms :
        /\ call = Idle
        /\ call' = [op |-> "expandSynonyms", query |-> query,
                    result |-> expandSynonyms(query)]
        /\ UNCHANGED <<engine, lastLoad, everLoaded>>

\* A direct call of parseSearchQuery(query).
ParseSearchQuery ==
    \E query \in Queries :
        /\ call = Idle
        /\ call' = [op |-> "parseSearchQuery", query |-> query,
                    result |-> parseSearchQuery(query)]
        /\ UNCHANGED <<engine, lastLoad, everLoaded>>

\* A direct call of highlightText(text, terms); the call leaves its argument
\* array sorted.
HighlightText ==
    \E text \in HighlightTexts, terms \in HighlightTermLists :
        /\ call = Idle
        /\ call' = [op |-> "highlightText", text |-> text, terms |-> terms,
                    termsAfter |-> termsAfterHighlight(text, terms),
                    result |-> highlightText(text, terms)]
        /\ UNCHANGED <<engine, lastLoad, everLoaded>>

\* A direct call of formatPDFDisplayName(pdfId).
FormatPDFDisplayName ==
    \E pdfId \in PdfIdPool :
        /\ call = Idle
        /\ call' = [op |-> "formatPDFDisplayName", pdfId |-> pdfId,
                    result |-> formatPDFDisplayName(pdfId)]
        /\ UNCHANGED <<engine, lastLoad, everLoaded>>

\* Mutant of Search: the filtered-out laws are removed from this.laws itself
\* instead of being skipped by the loop.
Search_FiltersInPlace ==
    \E query \in Queries, filters \in Filters :
        /\ call = Idle
        /\ call' = [op |-> "search", query |-> query, filters |-> filters,
                    result |-> search(query, filters)]
        /\ laws' = [laws EXCEPT
                       !.items = SelectSeq(@, LAMBDA law : ~LawSkipped(law, filters))]
        /\ UNCHANGED <<synonyms, pdfMetadata, pdfContent, isReady, lastLoad, everLoaded>>

\* A call of search(query, filters) by the presentation layer.
Search ==
    \E query \in Queries, filters \in Filters :
        /\ call = Idle
        /\ call' = [op |-> "search", query |-> query, filters |-> filters,
                    result |-> search(query, filters)]
        /\ UNCHANGED <<engine, lastLoad, everLoaded>>

\* A call of getStats().
GetStats ==
    /\ call = Idle
    /\ call' = [op |-> "getStats", result |-> getStats]
    /\ UNCHANGED <<engine, lastLoad, everLoaded>>

\* The caller takes the result; the next call can start.
Return ==
    /\ call # Idle
    /\ call' = Idle
    /\ UNCHANGED <<engine, lastLoad, everLoaded>>

Next ==
    \/ Return
    \/ LoadData
    \/ Search
    \/ GetStats
    \/ ExpandSynonyms
    \/ ParseSearchQuery
    \/ HighlightText
    \/ FormatPDFDisplayName

Spec == Init /\ [][Next]_vars

\* ---------------------------------------------------- expandSynonyms claims

NoDuplicates(seq) == \A i, j \in 1..Len(seq) : i # j => seq[i] # seq[j]

\* The lowercased key and synonyms of a dictionary entry.
EntryTerms(entry) ==
    {toLowerCase(entry.key)}
        \cup {toLowerCase(entry.synonyms[i]) : i \in 1..Len(entry.synonyms)}

\* The selection rule as C7 states it: the key occurs in the input, or the
\* input occurs in one of the synonyms.
SelectedAsClaimed(entry, query) ==
    \/ includes(toLowerCase(query), toLowerCase(entry.key))
    \/ \E i \in 1..Len(entry.synonyms) :
          includes(toLowerCase(entry.synonyms[i]), toLowerCase(query))

\* C7 (as claimed): the result of expandSynonyms(term) holds the lowercased
\* term and the keys and synonyms of exactly the entries whose lowercased key
\* is a substring of the lowercased term or of which some lowercased synonym
\* has the lowercased term as a substring, and nothing else.
C7_ExpandSelectsAsClaimed ==
    call.op = "expandSynonyms" =>
        Range(call.result) =
            {toLowerCase(call.query)}
                \cup UNION {EntryTerms(synonyms[e]) :
                              e \in {k \in 1..Len(synonyms) :
                                        SelectedAsClaimed(synonyms[k], call.query)}}

\* C8: the result of expandSynonyms(term) contains the lowercased term and
\* contains no element twice.
C8_ExpandHasTermNoDuplicates ==
    call.op = "expandSynonyms" =>
        /\ toLowerCase(call.query) \in Range(call.result)
        /\ NoDuplicates(call.result)

\* A call whose term has upper-case letters and equals, lowercased, the key of
\* an entry that also lists it as a synonym: the term is added three times.
C8_Witness ==
    /\ call.op = "expandSynonyms"
    /\ toLowerCase(call.query) # call.query
    /\ \E e \in 1..Len(synonyms) :
          /\ toLowerCase(synonyms[e].key) = toLowerCase(call.query)
          /\ toLowerCase(call.query) \in
                {toLowerCase(synonyms[e].synonyms[i]) : i \in 1..Len(synonyms[e].synonyms)}
    /\ Len(call.result) >= 2

\* -------------------------------------------------- parseSearchQuery claims

\* /\s+OR\s+/i matches somewhere in q: whitespace from a up to b - 1, then the
\* two letters in either case, then whitespace.
HasOrSeparator(q) ==
    \E a \in 1..Len(q), b \in 1..Len(q) :
        /\ a < b
        /\ \A k \in a..(b - 1) : IsWs(q[k])
        /\ b + 2 <= Len(q)
        /\ LowerChar(q[b]) = "o"
        /\ LowerChar(q[b + 1]) = "r"
        /\ IsWs(q[b + 2])

\* The positions at which a maximal run of non-whitespace characters starts.
RunStarts(q) == {i \in 1..Len(q) : ~IsWs(q[i]) /\ (i = 1 \/ IsWs(q[i - 1]))}

\* The k-th maximal run of non-whitespace characters of q.
NthRun(q, k) ==
    LET start == CHOOSE i \in RunStarts(q) :
                    Cardinality({j \in RunStarts(q) : j <= i}) = k
        end == Min({j \in start..Len(q) : j = Len(q) \/ IsWs(q[j + 1])})
    IN  SubSeq(q, start, end)

\* C9: parseSearchQuery(query) has mode OR exactly when the query holds a
\* whitespace-delimited OR in any case; then originalTerms are the trimmed
\* groups in query order and groups[i] is the expansion of the whole i-th
\* trimmed group.  Otherwise the mode is AND, originalTerms are the maximal
\* runs of non-whitespace characters in order (one empty token for a blank
\* query) and terms is the duplicate-free union of the tokens' expansions.
C9_ParseShape ==
    call.op = "parseSearchQuery" =>
        LET q == call.query
            r == call.result
            orGroups == splitOR(q)
            n == Cardinality(RunStarts(q))
        IN  IF HasOrSeparator(q)
            THEN /\ r.mode = "OR"
                 /\ Len(orGroups) >= 2
                 /\ Len(r.groups) = Len(orGroups)
                 /\ Len(r.originalTerms) = Len(orGroups)
                 /\ \A i \in 1..Len(orGroups) :
                       /\ r.originalTerms[i] = trim(orGroups[i])
                       /\ r.groups[i] = expandSynonyms(trim(orGroups[i]))
            ELSE /\ r.mode = "AND"
                 /\ r.originalTerms =
                       IF n = 0 THEN << <<>> >> ELSE [k \in 1..n |-> NthRun(q, k)]
                 /\ NoDuplicates(r.terms)
                 /\ Range(r.terms) =
                       UNION {Range(expandSynonyms(r.originalTerms[i])) :
                                 i \in 1..Len(r.originalTerms)}

\* An OR query written with a lower-case separator and a tab, one of whose
\* groups has whitespace inside and expands to several terms.
C9_Witness ==
    /\ call.op = "parseSearchQuery"
    /\ call.result.mode = "OR"
    /\ "\t" \in Range(call.query)
    /\ \E i \in 1..Len(call.result.groups) :
          /\ \E k \in 1..Len(call.result.originalTerms[i]) :
                IsWs(call.result.originalTerms[i][k])
          /\ Len(call.result.groups[i]) >= 2

\* ------------------------------------------------------------ search claims

\* A search call that got past the early return and scanned the corpus.
Scanned ==
    /\ call.op = "search"
    /\ isReady
    /\ laws.kind = "array"
    /\ trim(call.query) # <<>>

IsAndQuery(q) == ~HasOrSeparator(trim(q))

\* The articles of the corpus, as <<index of the law, index of the article>>.
ArticleIds ==
    UNION {{<<l, a>> : a \in 1..Len(laws.items[l].articles)} : l \in 1..Len(laws.items)}

LawOf(id) == laws.items[id[1]]

ArticleOf(id) == laws.items[id[1]].articles[id[2]]

\* The law of the article passes the two category switches.
PassesFilters(id, filters) ==
    /\ LawOf(id).lawType = LawTypeLaw => filters.law
    /\ LawOf(id).lawType = LawTypeOrdinance => filters.ordinance

\* The positions of the article in a list of article results.
PositionsIn(results, id) ==
    {i \in 1..Len(results) :
        /\ results[i].lawId = LawOf(id).lawId
        /\ results[i].articleNumber = ArticleOf(id).articleNumber
        /\ results[i].title = ArticleOf(id).title
        /\ results[i].content = ArticleOf(id).content}

ArticleText(id) == ArticleOf(id).title \o <<" ">> \o ArticleOf(id).content

\* The PDF records of the corpus, as <<category, index>>.
PdfCategory(type) ==
    CASE type = "standard" -> pdfContent.standards
      [] type = "detail" -> pdfContent.details
      [] type = "appendix" -> pdfContent.appendices
      [] type = "other" -> pdfContent.other

PdfIds ==
    UNION {{<<type, i>> : i \in 1..Len(PdfCategory(type))} :
              type \in {"standard", "detail", "appendix", "other"}}

PdfOf(id) == PdfCategory(id[1])[id[2]]

PdfPositionsIn(results, id) ==
    {i \in 1..Len(results) :
        /\ results[i].type = id[1]
        /\ results[i].id = PdfOf(id).id
        /\ results[i].title = PdfOf(id).title
        /\ results[i].fullContent = PdfOf(id).content}

PdfText(id) ==
    PdfOf(id).title \o <<" ">> \o PdfOf(id).content \o <<" ">>
        \o joinSpace(IF PdfOf(id).hasKeywords THEN PdfOf(id).keywords ELSE <<>>)

\* term occurs in text as a case-insensitive substring.
OccursIn(term, text) == includes(toLowerCase(text), toLowerCase(term))

\* Every whitespace-split token of q has a term of its own expansion in text.
EveryTokenHits(q, text) ==
    LET lower == toLowerCase(text)
    IN  \A k \in 1..Cardinality(RunStarts(q)) :
            \E t \in Range(expandSynonyms(NthRun(q, k))) : includes(lower, toLowerCase(t))

\* C1: in AND mode an article whose law passes the filters is returned (once)
\* exactly when every whitespace-split token of the query has a term of its
\* own synonym expansion occurring, case-insensitively, in title + " " +
\* content; a PDF record is returned (once) exactly when the same holds of
\* title + " " + content + " " + joined keywords; nothing else is returned.
C1_AndMatch ==
    (Scanned /\ IsAndQuery(call.query)) =>
        /\ \A id \in ArticleIds :
              Cardinality(PositionsIn(call.result.articles, id)) =
                 IF /\ PassesFilters(id, call.filters)
                    /\ EveryTokenHits(call.query, ArticleText(id))
                 THEN 1 ELSE 0
        /\ Len(call.result.articles) =
              Cardinality(UNION {PositionsIn(call.result.articles, id) : id \in ArticleIds})
        /\ \A id \in PdfIds :
              Cardinality(PdfPositionsIn(call.result.pdfs, id)) =
                 IF EveryTokenHits(call.query, PdfText(id)) THEN 1 ELSE 0
        /\ Len(call.result.pdfs) =
              Cardinality(UNION {PdfPositionsIn(call.result.pdfs, id) : id \in PdfIds})

\* An AND query of two tokens for which one article is returned although it
\* holds only a synonym of a token, one article that holds a token but nothing
\* of the other token's expansion is left out, and a PDF record is returned
\* through its keywords.
C1_Witness ==
    /\ Scanned
    /\ IsAndQuery(call.query)
    /\ Cardinality(RunStarts(call.query)) >= 2
    /\ \E id \in ArticleIds :
          /\ PositionsIn(call.result.articles, id) # {}
          /\ \E k \in 1..Cardinality(RunStarts(call.query)) :
                ~OccursIn(NthRun(call.query, k), ArticleText(id))
    /\ \E id \in ArticleIds :
          /\ PassesFilters(id, call.filters)
          /\ PositionsIn(call.result.articles, id) = {}
          /\ \E k \in 1..Cardinality(RunStarts(call.query)) :
                OccursIn(NthRun(call.query, k), ArticleText(id))
    /\ \E id \in PdfIds :
          /\ PdfPositionsIn(call.result.pdfs, id) # {}
          /\ ~EveryTokenHits(call.query, PdfOf(id).title \o <<" ">> \o PdfOf(id).content)

\* The OR groups of the query of a search call: the expansion of each trimmed
\* group string, in query order.
QueryGroups(q) ==
    LET orGroups == splitOR(trim(q))
    IN  [i \in 1..Len(orGroups) |-> expandSynonyms(trim(orGroups[i]))]

\* Some term of the group occurs in text: the test the code applies to a group.
SomeTermHits(group, text) ==
    LET lower == toLowerCase(text)
    IN  \E t \in Range(group) : includes(lower, toLowerCase(t))

\* Every term of the group occurs in text: the test C2 claims.
EveryTermHits(group, text) ==
    LET lower == toLowerCase(text)
    IN  \A t \in Range(group) : includes(lower, toLowerCase(t))

\* C2 (as claimed): in OR mode a returned article or PDF record has an OR
\* group all of whose expanded terms occur in its search text.
C2_EveryTermOfAGroup ==
    (Scanned /\ ~IsAndQuery(call.query)) =>
        LET groups == QueryGroups(call.query)
        IN  /\ \A id \in ArticleIds :
                  PositionsIn(call.result.articles, id) # {} =>
                     \E g \in 1..Len(groups) : EveryTermHits(groups[g], ArticleText(id))
            /\ \A id \in PdfIds :
                  PdfPositionsIn(call.result.pdfs, id) # {} =>
                     \E g \in 1..Len(groups) : EveryTermHits(groups[g], PdfText(id))

\* C2 (amended): in OR mode an article whose law passes the filters, and a
\* PDF record, is returned exactly when at least one OR group has at least
\* one of its expanded terms occurring in the record's search text; a record
\* that holds only some of the terms of a group is returned, and a record
\* that holds no term of any group is not.
C2_SomeTermOfAGroup ==
    (Scanned /\ ~IsAndQuery(call.query)) =>
        LET groups == QueryGroups(call.query)
        IN  /\ \A id \in ArticleIds :
                  PositionsIn(call.result.articles, id) # {} <=>
                     /\ PassesFilters(id, call.filters)
                     /\ \E g \in 1..Len(groups) : SomeTermHits(groups[g], ArticleText(id))
            /\ \A id \in PdfIds :
                  PdfPositionsIn(call.result.pdfs, id) # {} <=>
                     \E g \in 1..Len(groups) : SomeTermHits(groups[g], PdfText(id))

\* An OR search that returns an article and a PDF record in which some but
\* not all terms of a group occur, no group having all its terms in them, and
\* that leaves out a filter-passing article holding no term of any group.
C2_Witness ==
    /\ Scanned
    /\ ~IsAndQuery(call.query)
    /\ LET groups == QueryGroups(call.query)
       IN  /\ \E id \in ArticleIds :
                 /\ PositionsIn(call.result.articles, id) # {}
                 /\ \A g \in 1..Len(groups) : ~EveryTermHits(groups[g], ArticleText(id))
           /\ \E id \in PdfIds :
                 /\ PdfPositionsIn(call.result.pdfs, id) # {}
                 /\ \A g \in 1..Len(groups) : ~EveryTermHits(groups[g], PdfText(id))
           /\ \E id \in ArticleIds :
                 /\ PassesFilters(id, call.filters)
                 /\ PositionsIn(call.result.articles, id) = {}

\* The first group, in query order, some term of which occurs in text (0: none).
FirstGroupHit(groups, text) ==
    LET hit == {g \in 1..Len(groups) : SomeTermHits(groups[g], text)}
    IN  IF hit = {} THEN 0 ELSE Min(hit)

\* C3: in OR mode the groups are tried in query order and the scan of a
\* record stops at the first group one of whose terms occurs in it: a record
\* is returned exactly when some group is satisfied in this sense (so a
\* record holding only "B" is returned for "A OR B"), and the matched terms of
\* a result, from which its score is computed, are exactly the terms of the
\* first satisfied group, whatever later groups it satisfies.
C3_FirstGroupWins ==
    (Scanned /\ ~IsAndQuery(call.query)) =>
        LET groups == QueryGroups(call.query)
        IN  /\ \A id \in ArticleIds :
                  LET g == FirstGroupHit(groups, ArticleText(id))
                      pos == PositionsIn(call.result.articles, id)
                  IN  /\ pos # {} <=> (PassesFilters(id, call.filters) /\ g # 0)
                      /\ \A i \in pos :
                            /\ call.result.articles[i].matchedTerms = groups[g]
                            /\ call.result.articles[i].score =
                                  calculateScore(ArticleOf(id), call.query, groups[g])
            /\ \A id \in PdfIds :
                  LET g == FirstGroupHit(groups, PdfText(id))
                      pos == PdfPositionsIn(call.result.pdfs, id)
                  IN  /\ pos # {} <=> g # 0
                      /\ \A i \in pos :
                            /\ call.result.pdfs[i].matchedTerms = groups[g]
                            /\ call.result.pdfs[i].score =
                                  pdfScore(PdfOf(id), toLowerCase(PdfText(id)), groups[g])

\* An OR search that returns one article satisfying only a later group and
\* one article satisfying two groups whose terms differ.
C3_Witness ==
    /\ Scanned
    /\ ~IsAndQuery(call.query)
    /\ LET groups == QueryGroups(call.query)
       IN  /\ \E id \in ArticleIds :
                 /\ PositionsIn(call.result.articles, id) # {}
                 /\ FirstGroupHit(groups, ArticleText(id)) >= 2
           /\ \E id \in ArticleIds :
                 /\ PositionsIn(call.result.articles, id) # {}
                 /\ \E g, h \in 1..Len(groups) :
                       /\ g < h
                       /\ SomeTermHits(groups[g], ArticleText(id))
                       /\ SomeTermHits(groups[h], ArticleText(id))
                       /\ Range(groups[h]) \ Range(groups[g]) # {}

\* The results of a list that belong to laws of the given category, with the
\* fields the caller receives.
OfType(results, lawType) ==
    LET kept == SelectSeq(results, LAMBDA r : r.lawType = lawType)
    IN  [i \in 1..Len(kept) |->
            [lawId |-> kept[i].lawId, lawType |-> kept[i].lawType,
             articleNumber |-> kept[i].articleNumber, title |-> kept[i].title,
             content |-> kept[i].content, score |-> kept[i].score]]

\* The articles list of search(query, filters) for a call that does not raise.
searchArticles(query, filters) ==
    IF ~isReady \/ query = <<>> \/ Len(trim(query)) = 0 THEN <<>>
    ELSE sortByScore(scanArticles(ScanItems(laws.items, filters), query,
                                  parseSearchQuery(trim(query)), <<>>).results)

\* C10: a search with filters.law = false returns no article of a statute,
\* a search with filters.ordinance = false returns no article of an
\* ordinance, and each switch leaves the results of the other category as
\* they are with the switch flipped.
C10_FiltersExclude ==
    call.op = "search" =>
        LET f == call.filters
            articles == call.result.articles
        IN  /\ ~f.law => OfType(articles, LawTypeLaw) = <<>>
            /\ ~f.ordinance => OfType(articles, LawTypeOrdinance) = <<>>
            /\ ~call.result.threw =>
                  /\ OfType(articles, LawTypeOrdinance) =
                        OfType(searchArticles(call.query, [f EXCEPT !.law = ~f.law]),
                               LawTypeOrdinance)
                  /\ OfType(articles, LawTypeLaw) =
                        OfType(searchArticles(call.query, [f EXCEPT !.ordinance = ~f.ordinance]),
                               LawTypeLaw)

\* A search with the statute switch off and the ordinance switch on over a
\* corpus in which an article of a statute matches the query text, and which
\* returns an article of an ordinance.
C10_Witness ==
    /\ Scanned
    /\ ~call.filters.law
    /\ call.filters.ordinance
    /\ IsAndQuery(call.query)
    /\ \E id \in ArticleIds :
          /\ LawOf(id).lawType = LawTypeLaw
          /\ EveryTokenHits(call.query, ArticleText(id))
    /\ OfType(call.result.articles, LawTypeOrdinance) # <<>>

\* ------------------------------------------------------------ score claims

\* Some term of the list occurs in the lowercased text, counted as the
\* scoring loops count it.
HasOccurrence(terms, text) ==
    LET lower == toLowerCase(text)
    IN  \E t \in Range(terms) : countMatches(lower, toLowerCase(t)) > 0

\* C11: every result of search, article or PDF record, has a score that is
\* an integer greater than zero, and some term of its matched terms occurs in
\* its search text.
C11_ScoresPositive ==
    call.op = "search" =>
        /\ \A i \in 1..Len(call.result.articles) :
              call.result.articles[i].score \in Nat \ {0}
        /\ \A i \in 1..Len(call.result.pdfs) :
              call.result.pdfs[i].score \in Nat \ {0}
        /\ \A id \in ArticleIds : \A i \in PositionsIn(call.result.articles, id) :
              HasOccurrence(call.result.articles[i].matchedTerms, ArticleText(id))
        /\ \A id \in PdfIds : \A i \in PdfPositionsIn(call.result.pdfs, id) :
              HasOccurrence(call.result.pdfs[i].matchedTerms, PdfText(id))

\* A search that returns an article whose whole score is one occurrence of
\* one term and a PDF record whose whole score is one occurrence, and that
\* leaves out a filter-passing article and a PDF record of the corpus.
C11_Witness ==
    /\ Scanned
    /\ \E i \in 1..Len(call.result.articles) :
          call.result.articles[i].score = OccurrenceWeight
    /\ \E i \in 1..Len(call.result.pdfs) :
          call.result.pdfs[i].score = PdfOccurrenceWeight
    /\ \E id \in ArticleIds :
          PassesFilters(id, call.filters) /\ PositionsIn(call.result.articles, id) = {}
    /\ \E id \in PdfIds : PdfPositionsIn(call.result.pdfs, id) = {}

\* The matched terms of a record with the given search text: in AND mode the
\* terms of the parsed query, in OR mode the terms of the first group one of
\* whose terms occurs in the text.
MatchedTermSet(q, text) ==
    IF IsAndQuery(q) THEN Range(parseSearchQuery(trim(q)).terms)
    ELSE LET groups == QueryGroups(q)
             g == FirstGroupHit(groups, text)
         IN  IF g = 0 THEN {} ELSE Range(groups[g])

\* The sum of the values of a function with a finite domain.
RECURSIVE SumOver(_)
SumOver(f) ==
    IF DOMAIN f = {} THEN 0
    ELSE LET x == CHOOSE y \in DOMAIN f : TRUE
         IN  f[x] + SumOver([y \in DOMAIN f \ {x} |-> f[y]])

\* C17: the score of a returned article is 150 if the lowercased query, as
\* passed to search, occurs in the lowercased title + " " + content, plus, for
\* each matched term, 15 for each case-insensitive occurrence in that text,
\* 80 if the term occurs in the title and 60 if it occurs in the article
\* number; nothing is divided by a length.
C17_ArticleScore ==
    Scanned =>
        \A id \in ArticleIds : \A i \in PositionsIn(call.result.articles, id) :
            LET text == toLowerCase(ArticleText(id))
                perTerm ==
                    [t \in MatchedTermSet(call.query, ArticleText(id)) |->
                        15 * countMatches(text, toLowerCase(t))
                          + (IF OccursIn(t, ArticleOf(id).title) THEN 80 ELSE 0)
                          + (IF OccursIn(t, ArticleOf(id).articleNumber) THEN 60 ELSE 0)]
            IN  call.result.articles[i].score =
                    (IF includes(text, toLowerCase(call.query)) THEN 150 ELSE 0)
                      + SumOver(perTerm)

\* A search whose query has whitespace around it and, trimmed, occurs in a
\* returned article, and that returns an article one of whose matched terms
\* occurs in its title and in its number.
C17_Witness ==
    /\ Scanned
    /\ trim(call.query) # call.query
    /\ \E id \in ArticleIds :
          /\ PositionsIn(call.result.articles, id) # {}
          /\ OccursIn(trim(call.query), ArticleText(id))
    /\ \E id \in ArticleIds :
          /\ PositionsIn(call.result.articles, id) # {}
          /\ \E t \in MatchedTermSet(call.query, ArticleText(id)) :
                /\ OccursIn(t, ArticleOf(id).title)
                /\ OccursIn(t, ArticleOf(id).articleNumber)

\* The scores of a result list do not increase from one result to the next.
NonIncreasing(results) ==
    \A i \in 1..(Len(results) - 1) : results[i].score >= results[i + 1].score

\* C12: both lists returned by search are ordered by non-increasing score.
C12_SortedByScore ==
    call.op = "search" =>
        /\ NonIncreasing(call.result.articles)
        /\ NonIncreasing(call.result.pdfs)

\* A search in which an article scanned later is returned before an article
\* scanned earlier, with a strictly higher score, and which returns PDF
\* records of different scores.
C12_Witness ==
    /\ Scanned
    /\ \E id1, id2 \in ArticleIds :
          /\ id1[1] < id2[1] \/ (id1[1] = id2[1] /\ id1[2] < id2[2])
          /\ \E i \in PositionsIn(call.result.articles, id1),
                j \in PositionsIn(call.result.articles, id2) :
                /\ j < i
                /\ call.result.articles[j].score > call.result.articles[i].score
    /\ \E i, j \in 1..Len(call.result.pdfs) :
          call.result.pdfs[i].score > call.result.pdfs[j].score

\* ------------------------------------------------------ highlightText claims

\* s starts with the characters of tag.
StartsWith(s, tag) == Len(s) >= Len(tag) /\ SubSeq(s, 1, Len(tag)) = tag

\* s with every opening and closing highlight tag removed, left to right (a
\* global replace of the two tags by the empty string).
RECURSIVE StripMarkup(_)
StripMarkup(s) ==
    IF s = <<>> THEN <<>>
    ELSE IF StartsWith(s, HighlightOpen)
         THEN StripMarkup(SubSeq(s, Len(HighlightOpen) + 1, Len(s)))
    ELSE IF StartsWith(s, HighlightClose)
         THEN StripMarkup(SubSeq(s, Len(HighlightClose) + 1, Len(s)))
    ELSE <<Head(s)>> \o StripMarkup(Tail(s))

\* C13 (as claimed): for every text and every non-empty term list, the result
\* of highlightText(text, terms) with the highlight tags removed is the text.
C13_HighlightRoundTrip ==
    (call.op = "highlightText" /\ call.terms # <<>>) =>
        StripMarkup(call.result) = call.text

\* ------------------------------------------------------- PDF result claims

\* A list of PDF results with the fields the caller receives.
PdfView(results) ==
    [i \in 1..Len(results) |->
        [type |-> results[i].type, id |-> results[i].id,
         displayName |-> results[i].displayName, title |-> results[i].title,
         content |-> results[i].content, fullContent |-> results[i].fullContent,
         score |-> results[i].score,
         highlightedTitle |-> results[i].highlightedTitle,
         highlightedContent |-> results[i].highlightedContent]]

\* The pdfs list of search(query, filters) for a call that does not raise.
searchPdfsUnder(query, filters) ==
    IF ~isReady \/ query = <<>> \/ Len(trim(query)) = 0 THEN <<>>
    ELSE searchPDFs(query,
                    scanArticles(ScanItems(laws.items, filters), query,
                                 parseSearchQuery(trim(query)), <<>>).parsedQuery)

\* C14 (as claimed): the pdfs list of a search is the same for every value
\* of the filters argument, the details and appendices switches included.
C14_PdfsIgnoreFilters ==
    (call.op = "search" /\ ~call.result.threw) =>
        \A f \in Filters :
            PdfView(searchPdfsUnder(call.query, f)) = PdfView(call.result.pdfs)

\* The 0-based indices at which term occurs in content, case-insensitively.
OccurrencesAt(term, content) ==
    LET lower == toLowerCase(content)
        t == toLowerCase(term)
    IN  {j \in 0..(Len(content) - Len(t)) :
            \A k \in 1..Len(t) : lower[j + k] = t[k]}

\* The positions in the term list of the terms whose first occurrence in
\* content lies at an index below 500.
Qualifying(terms, content) ==
    {k \in 1..Len(terms) :
        /\ OccurrencesAt(terms[k], content) # {}
        /\ Min(OccurrencesAt(terms[k], content)) < 500}

\* C18: the preview of a returned PDF record is the first 200 characters of
\* its content when no matched term has its first case-insensitive occurrence
\* in the content at an index below 500; otherwise, with i the index of the
\* first occurrence of the first such term in the order of the matched-term
\* list (the list as the record's scoring and preview loops iterate it), the
\* preview is the ellipsis marker, the content from max(0, i - 50) up to
\* min(length, i + 150), and the ellipsis marker: a window of at most 200
\* characters that starts no later than the occurrence.
C18_PdfPreview ==
    Scanned =>
        \A id \in PdfIds : \A r \in PdfPositionsIn(call.result.pdfs, id) :
            LET content == PdfOf(id).content
                terms == call.result.pdfs[r].matchedTerms
                preview == call.result.pdfs[r].content
                q == Qualifying(terms, content)
            IN  IF q = {}
                THEN preview = SubSeq(content, 1, Min({200, Len(content)}))
                ELSE LET i == Min(OccurrencesAt(terms[Min(q)], content))
                         from == Max({0, i - 50})
                         to == Min({Len(content), i + 150})
                     IN  /\ preview = <<".", ".", ".">> \o SubSeq(content, from + 1, to)
                                          \o <<".", ".", ".">>
                         /\ to - from <= 200
                         /\ from <= i

\* A search that returns a PDF record whose window is cut from inside the
\* content (it starts after the beginning, holds 200 characters and ends
\* before the end) and a PDF record whose first matched term does not occur
\* in its content, so that a later term of the list places the window.
C18_Witness ==
    /\ Scanned
    /\ \E id \in PdfIds : \E r \in PdfPositionsIn(call.result.pdfs, id) :
          LET q == Qualifying(call.result.pdfs[r].matchedTerms, PdfOf(id).content)
          IN  /\ q # {}
              /\ LET i == Min(OccurrencesAt(call.result.pdfs[r].matchedTerms[Min(q)],
                                            PdfOf(id).content))
                 IN  i > 50 /\ i + 150 < Len(PdfOf(id).content)
    /\ \E id \in PdfIds : \E r \in PdfPositionsIn(call.result.pdfs, id) :
          LET q == Qualifying(call.result.pdfs[r].matchedTerms, PdfOf(id).content)
          IN  q # {} /\ Min(q) > 1

\* The results searchPDFs produces for the query over a corpus that holds
\* the one PDF record and nothing else.
PdfResultAlone(id, q) ==
    scanPDFs(<<[type |-> id[1], pdf |-> PdfOf(id)]>>, parseSearchQuery(trim(q)), <<>>)

\* C19 (as claimed): the score, the preview and the highlighted fields of a
\* returned PDF record are those the query produces for the record alone,
\* whatever articles and other PDF records the corpus holds and are scanned
\* before it.
C19_PdfResultOfRecordAlone ==
    Scanned =>
        \A id \in PdfIds : \A r \in PdfPositionsIn(call.result.pdfs, id) :
            PdfView(<<call.result.pdfs[r]>>) = PdfView(PdfResultAlone(id, call.query))

\* ----------------------------------------------- formatPDFDisplayName claim

\* id is one upper-case letter, then digits up to position a, then nothing or
\* a hyphen and digits to the end.
HasIdShape(id, a) ==
    /\ a \in 2..Len(id)
    /\ id[1] \in UpperLetters
    /\ \A i \in 2..a : IsDigit(id[i])
    /\ \/ a = Len(id)
       \/ /\ a + 2 <= Len(id)
          /\ id[a + 1] = "-"
          /\ \A i \in (a + 2)..Len(id) : IsDigit(id[i])

\* A digit string without its leading zeros (one zero is kept for zero).
WithoutLeadingZeros(digits) ==
    LET nz == {i \in 1..Len(digits) : digits[i] # "0"}
    IN  IF nz = {} THEN <<"0">> ELSE SubSeq(digits, Min(nz), Len(digits))

\* The label of a prefix letter of the table, before and after the number.
LabelOf(prefix) ==
    CASE prefix = "S" -> LabelDetail
      [] prefix = "B" -> LabelAppendix
      [] prefix = "H" -> LabelStandard

\* C16: formatPDFDisplayName(id) of an id made of one upper-case letter,
\* digits and an optional "-digits" suffix whose letter is S, B or H is the
\* label of that letter around the number (the digits read as a decimal
\* number) followed by the suffix as written; every other id, that of a
\* well-formed id with another letter included, is returned unchanged.
C16_DisplayName ==
    call.op = "formatPDFDisplayName" =>
        LET id == call.pdfId
            shaped == {a \in 2..Len(id) : HasIdShape(id, a)}
        IN  IF shaped # {} /\ id[1] \in {"S", "B", "H"}
            THEN \A a \in shaped :
                    call.result =
                        LabelOf(id[1]).before
                            \o WithoutLeadingZeros(SubSeq(id, 2, a))
                            \o LabelOf(id[1]).after
                            \o SubSeq(id, a + 1, Len(id))
            ELSE call.result = id

\* The call formatPDFDisplayName("B12"), which returns the appendix label
\* with the number 12.
C16_Witness ==
    /\ call.op = "formatPDFDisplayName"
    /\ call.pdfId = <<"B", "1", "2">>
    /\ call.result = LabelAppendix.before \o <<"1", "2">>

\* ---------------------------------------------------------------- frame claim

\* C15: a search call and a getStats call leave laws, synonyms, pdfMetadata,
\* pdfContent and the ready flag as they are, so after a successful load the
\* corpus stays as the load left it through any number of such calls.
C15_CallsLeaveCorpus ==
    [][(call = Idle /\ call'.op \in {"search", "getStats"}) =>
          /\ laws' = laws
          /\ synonyms' = synonyms
          /\ pdfMetadata' = pdfMetadata
          /\ pdfContent' = pdfContent
          /\ isReady' = isReady]_vars

\* After a successful load, an AND search with a filter switched off that
\* returned articles and PDF records and during which highlightText
\* reordered the term array of the parsed query.
C15_Witness ==
    /\ Scanned
    /\ lastLoad = "ok"
    /\ IsAndQuery(call.query)
    /\ ~call.filters.law
    /\ call.result.articles # <<>>
    /\ \E i \in 1..Len(call.result.pdfs) :
          call.result.pdfs[i].matchedTerms # parseSearchQuery(trim(call.query)).terms

\* ---------------------------------------------------------- loadData claims

\* The search call returned {articles: [], pdfs: []} without raising.
ReturnedEmpty ==
    /\ ~call.result.threw
    /\ call.result.articles = <<>>
    /\ call.result.pdfs = <<>>

\* C4 (as claimed): a loadData call in which a fetch or a JSON parse fails
\* returns false and leaves laws, synonyms, pdfMetadata and pdfContent as they
\* were before the call.
C4_FailedLoadCommitsNothing ==
    [][(call = Idle /\ call'.op = "loadData" /\ call'.failure.stage # "none") =>
          /\ ~call'.ret
          /\ laws' = laws
          /\ synonyms' = synonyms
          /\ pdfMetadata' = pdfMetadata
          /\ pdfContent' = pdfContent]_vars

\* C5 (as claimed): while the latest loadData call is a failed one the ready
\* flag is false and every search returns empty lists, and the ready flag is
\* true only if some loadData call has returned true.
C5_FailedLoadNotReady ==
    /\ lastLoad = "failed" =>
          /\ ~isReady
          /\ call.op = "search" => ReturnedEmpty
    /\ isReady => everLoaded

\* C6 (as claimed): a search returns empty lists and raises nothing when the
\* ready flag is false or the query is empty or blank, and no search raises
\* once a loadData call has returned true.
C6_SearchNeverRaises ==
    call.op = "search" =>
        /\ (~isReady \/ trim(call.query) = <<>>) => ReturnedEmpty
        /\ everLoaded => ~call.result.threw

====
